---------------------------- MODULE Spec2Model ----------------------------
(***************************************************************************)
(* Model of the Kilter-board heatmap (src/script.js): the classifier       *)
(* (getPercentileColor, computeQuantiles), the aggregator (mergeAllAngles, *)
(* the usage pipeline of drawBoardWithNormalizedHeatmap,                   *)
(* countBouldersWithGrade) and the load / redraw event loop.               *)
(***************************************************************************)
EXTENDS Integers, Sequences, FiniteSets

VARIABLES
    value,          \* getPercentileColor: argument `value`
    quantiles,      \* getPercentileColor: argument `quantiles`
    color,          \* getPercentileColor: returned colour ("" before the call)
    values,         \* computeQuantiles: argument `values` (the caller's array)
    cutoffs,        \* computeQuantiles: returned array (<<>> before the call)
    gradeCountMap,  \* the loaded angle-hold-boulder-grade-map.json
    angleOrder,     \* key order of gradeCountMap (Object.keys / Object.values)
    merged,         \* mergeAllAngles: returned object ({} before the call)
    fetchHolds,     \* fetch("full-hold-map.json"): "pending" | "ok" | "failed"
    fetchMap,       \* fetch("angle-hold-boulder-grade-map.json")
    init,           \* the .then callback: "waiting" | "done" | "aborted"
    listeners,      \* TRUE once the change listeners are attached
    angleSelect,    \* angleSelect.value
    gradeSelect,    \* gradeSelect.value
    svg,            \* children of #svg-climb that are circles, in order
    boulderNumber,  \* textContent of #boulder-number (a string)
    pc              \* a pure function on its own: "call" before, "done" after

classVars == <<value, quantiles, color>>
quantVars == <<values, cutoffs>>
dataVars  == <<gradeCountMap, angleOrder>>
mergeVars == <<merged>>
loadVars  == <<fetchHolds, fetchMap, init, listeners>>
viewVars  == <<angleSelect, gradeSelect, svg, boulderNumber>>
vars == <<classVars, quantVars, dataVars, mergeVars, loadVars, viewVars, pc>>

----------------------------------------------------------------------------
(* Bounds *)

MaxVal == 3       \* usage values and cutoffs of the classifier range over 0..MaxVal
MaxLen == 7       \* longest array handed to computeQuantiles
MaxUsage == 2     \* entries of an array handed to computeQuantiles range over 0..MaxUsage
MaxCount == 1     \* largest single count[a][h][g] of a generated data set

----------------------------------------------------------------------------
(* Generic helpers *)

\* all functions from a subset of D to R (objects with optional keys)
PartialFns(D, R) == UNION {[S -> R] : S \in SUBSET D}

\* all orderings of the elements of S
Orders(S) == {o \in [1..Cardinality(S) -> S] : \A i, j \in DOMAIN o : o[i] = o[j] => i = j}

----------------------------------------------------------------------------
(* Classifier *)

\* getPercentileColor(value, quantiles); quantiles[k] of the source is q[k+1]
getPercentileColor_strict(v, q) ==
    IF v = 0 THEN "transparent"
    ELSE IF v > q[5] THEN "#bd0026"
    ELSE IF v > q[4] THEN "#fd8d3c"
    ELSE IF v > q[3] THEN "#fecc5c"
    ELSE IF v > q[2] THEN "#ffffb2"
    ELSE "#d4f7b2"

getPercentileColor(v, q) ==
    IF v = 0 THEN "transparent"
    ELSE IF v >= q[5] THEN "#bd0026"
    ELSE IF v >= q[4] THEN "#fd8d3c"
    ELSE IF v >= q[3] THEN "#fecc5c"
    ELSE IF v >= q[2] THEN "#ffffb2"
    ELSE "#d4f7b2"

\* Array.prototype.sort((a, b) => a - b) on a copy: insertion into a sorted prefix
RECURSIVE InsertSorted(_, _)
InsertSorted(x, s) ==
    IF s = <<>> THEN <<x>>
    ELSE IF x < Head(s) THEN <<x>> \o s
    ELSE <<Head(s)>> \o InsertSorted(x, Tail(s))

RECURSIVE SortAsc(_)
SortAsc(s) == IF s = <<>> THEN <<>> ELSE InsertSorted(s[Len(s)], SortAsc(SubSeq(s, 1, Len(s) - 1)))

\* idx(q) = Math.floor(q * sorted.length), q = num / 100
idx_ceil(num, n) ==
    LET c == (num * n + 99) \div 100 IN IF c <= n - 1 THEN c ELSE n - 1

idx(num, n) == (num * n) \div 100

\* computeQuantiles(values); sorted[k] of the source is sorted[k+1]
computeQuantiles_unsorted(vals) ==
    IF Len(vals) = 0 THEN <<0, 0, 0, 0, 0>>
    ELSE LET n == Len(vals)
         IN  <<vals[1],
               vals[idx(30, n) + 1],
               vals[idx(50, n) + 1],
               vals[idx(85, n) + 1],
               vals[idx(95, n) + 1]>>

computeQuantiles(vals) ==
    IF Len(vals) = 0 THEN <<0, 0, 0, 0, 0>>
    ELSE LET sorted == SortAsc(vals)
             n == Len(sorted)
         IN  <<sorted[1],
               sorted[idx(30, n) + 1],
               sorted[idx(50, n) + 1],
               sorted[idx(85, n) + 1],
               sorted[idx(95, n) + 1]>>

\* what the caller's array holds after computeQuantiles(values): the sort
\* works on the copy [...values]
valuesAfterCall(vals) == vals

----------------------------------------------------------------------------
(* Data model: the two JSON resources *)

AngleIds == {"20", "40"}          \* angles a data set may define
AngleOptions == {"all", "20", "40", "60"}   \* values of #angle-filter
HoldIds == {"H1", "H2"}           \* holds a data set may count
Grades == {"V3", "V4"}            \* grades a data set may use
GradeOptions == {"all", "V3", "V4", "V5"}   \* values of #grade-filter
Uuids == {"b1", "b2"}             \* boulder UUIDs a data set may hold

EmptyObj == [k \in {} |-> 0]      \* the object {}

\* GradeCounts: grade -> count, any grade optional
GradeCountsSet == PartialFns(Grades, 0..MaxCount)
\* AngleData.holds: holdId -> GradeCounts, any hold optional
HoldsMaps == PartialFns(HoldIds, GradeCountsSet)
\* AngleData.boulders: uuid -> BoulderInfo, any uuid optional
BouldersMaps == PartialFns(Uuids, [grade : Grades])

\* AngleData records with `holds` and `boulders` independently optional
AngleDatas(HM, BM) ==
    {EmptyObj}
    \cup {[holds |-> h] : h \in HM}
    \cup {[boulders |-> b] : b \in BM}
    \cup {[holds |-> h, boulders |-> b] : h \in HM, b \in BM}

\* the hold layout full-hold-map.json: imageUrl -> [holdId, mirroredHoldId, x, y]
imagesToHolds ==
    [img \in {"board.png"} |->
        << <<"H1", "H2", 36, 90>>,     \* drawn
           <<"H2", "H1", 108, 90>>,    \* drawn
           <<"H3", "H3", 72, 20>>,     \* drawn, never counted by a data set
           <<"H4", "H4", 150, 20>>,    \* x > edgeRight
           <<"H5", "H5", 0, 20>>,      \* xPixel = 0
           <<"H6", "H6", 72, 176>> >>] \* yPixel = 30

imageWidth == 1080
imageHeight == 1350
edgeLeft == 0
edgeRight == 144
edgeBottom == 0
edgeTop == 180

----------------------------------------------------------------------------
(* Aggregator *)

HasHolds(gcm, a) == a \in DOMAIN gcm /\ "holds" \in DOMAIN gcm[a]
HasBoulders(gcm, a) == a \in DOMAIN gcm /\ "boulders" \in DOMAIN gcm[a]

\* one pass of the outer loop of mergeAllAngles over angleData.holds:
\* merged[holdId][grade] = (merged[holdId][grade] || 0) + count
MergeHolds_overwrite(acc, holds) ==
    [h \in DOMAIN acc \cup DOMAIN holds |->
        IF h \notin DOMAIN holds THEN acc[h]
        ELSE LET old == IF h \in DOMAIN acc THEN acc[h] ELSE EmptyObj
             IN  [g \in DOMAIN old \cup DOMAIN holds[h] |->
                    IF g \in DOMAIN holds[h] THEN holds[h][g] ELSE old[g]]]

MergeHolds(acc, holds) ==
    [h \in DOMAIN acc \cup DOMAIN holds |->
        IF h \notin DOMAIN holds THEN acc[h]
        ELSE LET old == IF h \in DOMAIN acc THEN acc[h] ELSE EmptyObj
             IN  [g \in DOMAIN old \cup DOMAIN holds[h] |->
                    (IF g \in DOMAIN old THEN old[g] ELSE 0)
                    + (IF g \in DOMAIN holds[h] THEN holds[h][g] ELSE 0)]]

\* mergeAllAngles(gradeCountMap), the angles visited in the order `order`
RECURSIVE MergeFrom(_, _, _)
MergeFrom(gcm, order, acc) ==
    IF order = <<>> THEN acc
    ELSE MergeFrom(gcm, Tail(order),
                   IF "holds" \in DOMAIN gcm[Head(order)]
                   THEN MergeHolds(acc, gcm[Head(order)].holds)
                   ELSE acc)

mergeAllAngles(gcm, order) == MergeFrom(gcm, order, EmptyObj)

\* activeMap of drawBoardWithNormalizedHeatmap
selectActiveMap_fallback(gcm, order, selectedAngle) ==
    IF selectedAngle = "all" \/ ~HasHolds(gcm, selectedAngle)
    THEN mergeAllAngles(gcm, order)
    ELSE gcm[selectedAngle].holds

selectActiveMap(gcm, order, selectedAngle) ==
    IF selectedAngle = "all" THEN mergeAllAngles(gcm, order)
    ELSE IF HasHolds(gcm, selectedAngle) THEN gcm[selectedAngle].holds
    ELSE EmptyObj

\* Object.values(f).reduce((a, b) => a + b, 0)
RECURSIVE SumValues(_)
SumValues(f) ==
    IF DOMAIN f = {} THEN 0
    ELSE LET k == CHOOSE x \in DOMAIN f : TRUE
         IN  f[k] + SumValues([x \in DOMAIN f \ {k} |-> f[x]])

\* usagePerHold of drawBoardWithNormalizedHeatmap
usagePerHold_anyGrade(am, selectedGrade) ==
    [h \in DOMAIN am |-> SumValues(am[h])]

usagePerHold(am, selectedGrade) ==
    [h \in DOMAIN am |->
        IF selectedGrade = "all" THEN SumValues(am[h])
        ELSE IF selectedGrade \in DOMAIN am[h] THEN am[h][selectedGrade]
        ELSE 0]

\* Object.values(usagePerHold).filter((u) => u > 0).sort((a, b) => a - b)
RECURSIVE PositiveValues(_)
PositiveValues(f) ==
    IF DOMAIN f = {} THEN <<>>
    ELSE LET k == CHOOSE x \in DOMAIN f : TRUE
             rest == PositiveValues([x \in DOMAIN f \ {k} |-> f[x]])
         IN  IF f[k] > 0 THEN <<f[k]>> \o rest ELSE rest

usageVals(usage) == SortAsc(PositiveValues(usage))

\* countBouldersWithGrade: the inner loop over data.boulders
MatchingIn(gcm, angle, selectedGrade) ==
    IF ~HasBoulders(gcm, angle) THEN {}
    ELSE {b \in DOMAIN gcm[angle].boulders :
            selectedGrade = "all" \/ gcm[angle].boulders[b].grade = selectedGrade}

RECURSIVE CountOver(_, _, _)
CountOver(gcm, angles, selectedGrade) ==
    IF angles = <<>> THEN 0
    ELSE Cardinality(MatchingIn(gcm, Head(angles), selectedGrade))
         + CountOver(gcm, Tail(angles), selectedGrade)

countBouldersWithGrade_distinct(gcm, order, selectedGrade, selectedAngle) ==
    LET angles == IF selectedAngle = "all" THEN order ELSE <<selectedAngle>>
    IN  Cardinality(UNION {MatchingIn(gcm, angles[i], selectedGrade) : i \in DOMAIN angles})

countBouldersWithGrade(gcm, order, selectedGrade, selectedAngle) ==
    LET angles == IF selectedAngle = "all" THEN order ELSE <<selectedAngle>>
    IN  CountOver(gcm, angles, selectedGrade)

----------------------------------------------------------------------------
(* Rendering: drawBoardWithNormalizedHeatmap *)

allHolds == imagesToHolds["board.png"]   \* Object.values(imagesToHolds).flat()

\* pixel coordinates in tenths of a pixel (xSpacing = ySpacing = 7.5)
xPixel10(x) == ((x - edgeLeft) * imageWidth * 10) \div (edgeRight - edgeLeft)
yPixel10(y) == imageHeight * 10 - ((y - edgeBottom) * imageHeight * 10) \div (edgeTop - edgeBottom)

\* the two `continue` tests of the draw loop
Skipped(x, y) ==
    \/ x < edgeLeft \/ x > edgeRight \/ y < edgeBottom \/ y > edgeTop
    \/ xPixel10(x) <= 0 \/ xPixel10(x) >= imageWidth * 10
    \/ yPixel10(y) \in {300, 900, 1500}

\* the circle of one layout entry; opacities in tenths; `usage` is the value
\* of line 193 the attributes are computed from
Circle(entry, usage, qs) ==
    LET u == IF entry[1] \in DOMAIN usage THEN usage[entry[1]] ELSE 0
    IN  [id |-> entry[1],
         cx |-> xPixel10(entry[3]),
         cy |-> yPixel10(entry[4]),
         usage |-> u,
         fill |-> getPercentileColor(u, qs),
         fillOpacity |-> IF u > 1 THEN 7 ELSE 0,
         stroke |-> IF u > 1 THEN "black" ELSE "transparent",
         strokeOpacity |-> IF u > 1 THEN 5 ELSE 0]

RECURSIVE DrawHolds(_, _, _)
DrawHolds(entries, usage, qs) ==
    IF entries = <<>> THEN <<>>
    ELSE IF Skipped(Head(entries)[3], Head(entries)[4])
         THEN DrawHolds(Tail(entries), usage, qs)
         ELSE <<Circle(Head(entries), usage, qs)>> \o DrawHolds(Tail(entries), usage, qs)

\* the circles one call appends to the emptied svg
Circles(gcm, order, selectedAngle, selectedGrade) ==
    LET activeMap == selectActiveMap(gcm, order, selectedAngle)
        usage == usagePerHold(activeMap, selectedGrade)
        qs == computeQuantiles(usageVals(usage))
    IN  DrawHolds(allHolds, usage, qs)

\* element.textContent = count: the number as a decimal string
ToText(n) == <<"0", "1", "2", "3", "4", "5", "6", "7", "8", "9">>[n + 1]

\* svgElement.innerHTML = ""
ClearSvg_keep(old) == old

ClearSvg(old) == <<>>

\* redraw(): hideTooltip, drawBoardWithNormalizedHeatmap, updateBoulderCount
Redraw(a, g) ==
    /\ svg' = ClearSvg(svg) \o Circles(gradeCountMap, angleOrder, a, g)
    /\ boulderNumber' = ToText(countBouldersWithGrade(gradeCountMap, angleOrder, g, a))

----------------------------------------------------------------------------
(* Load and event loop *)

\* Promise.all([...]).then: the callback runs once both fetches have resolved
BothLoaded_any == fetchHolds = "ok" \/ fetchMap = "ok"

BothLoaded == fetchHolds = "ok" /\ fetchMap = "ok"

ResolveHolds ==
    /\ fetchHolds = "pending"
    /\ fetchHolds' = "ok"
    /\ UNCHANGED <<classVars, quantVars, dataVars, mergeVars, fetchMap, init, listeners, viewVars, pc>>

RejectHolds ==
    /\ fetchHolds = "pending"
    /\ fetchHolds' = "failed"
    /\ UNCHANGED <<classVars, quantVars, dataVars, mergeVars, fetchMap, init, listeners, viewVars, pc>>

ResolveMap ==
    /\ fetchMap = "pending"
    /\ fetchMap' = "ok"
    /\ UNCHANGED <<classVars, quantVars, dataVars, mergeVars, fetchHolds, init, listeners, viewVars, pc>>

RejectMap ==
    /\ fetchMap = "pending"
    /\ fetchMap' = "failed"
    /\ UNCHANGED <<classVars, quantVars, dataVars, mergeVars, fetchHolds, init, listeners, viewVars, pc>>

\* the .then callback: initial render, then the two addEventListener calls
Start ==
    /\ init = "waiting"
    /\ BothLoaded
    /\ Redraw(angleSelect, gradeSelect)
    /\ listeners' = TRUE
    /\ init' = "done"
    /\ UNCHANGED <<classVars, quantVars, dataVars, mergeVars, fetchHolds, fetchMap,
                   angleSelect, gradeSelect, pc>>

\* Promise.all rejects when one fetch rejects; no handler is attached
Abort ==
    /\ init = "waiting"
    /\ fetchHolds = "failed" \/ fetchMap = "failed"
    /\ init' = "aborted"
    /\ UNCHANGED <<classVars, quantVars, dataVars, mergeVars, fetchHolds, fetchMap,
                   listeners, viewVars, pc>>

\* the user picks another angle; "change" runs redraw if the listener is attached
ChangeAngle(a) ==
    /\ a # angleSelect
    /\ angleSelect' = a
    /\ IF listeners THEN Redraw(a, gradeSelect)
       ELSE UNCHANGED <<svg, boulderNumber>>
    /\ UNCHANGED <<classVars, quantVars, dataVars, mergeVars, loadVars, gradeSelect, pc>>

ChangeGrade(g) ==
    /\ g # gradeSelect
    /\ gradeSelect' = g
    /\ IF listeners THEN Redraw(angleSelect, g)
       ELSE UNCHANGED <<svg, boulderNumber>>
    /\ UNCHANGED <<classVars, quantVars, dataVars, mergeVars, loadVars, angleSelect, pc>>

----------------------------------------------------------------------------
(* Calls of the pure functions on their own *)

CallColor ==
    /\ pc = "call"
    /\ pc' = "done"
    /\ color' = getPercentileColor(value, quantiles)
    /\ UNCHANGED <<value, quantiles, quantVars, dataVars, mergeVars, loadVars, viewVars>>

CallQuantiles ==
    /\ pc = "call"
    /\ pc' = "done"
    /\ cutoffs' = computeQuantiles(values)
    /\ values' = valuesAfterCall(values)
    /\ UNCHANGED <<classVars, dataVars, mergeVars, loadVars, viewVars>>

CallMerge ==
    /\ pc = "call"
    /\ pc' = "done"
    /\ merged' = mergeAllAngles(gradeCountMap, angleOrder)
    /\ UNCHANGED <<classVars, quantVars, dataVars, loadVars, viewVars>>

----------------------------------------------------------------------------
(* Initial states *)

ClassIdle == value = 0 /\ quantiles = <<0, 0, 0, 0, 0>> /\ color = ""
QuantIdle == values = <<>> /\ cutoffs = <<>>
MergeIdle == merged = EmptyObj
DataIdle == gradeCountMap = EmptyObj /\ angleOrder = <<>>
LoadIdle == fetchHolds = "pending" /\ fetchMap = "pending" /\ init = "waiting" /\ listeners = FALSE
ViewIdle ==
    /\ angleSelect = "all" /\ gradeSelect = "all"
    /\ svg = <<>> /\ boulderNumber = ""

\* data sets that count holds only, for mergeAllAngles on its own
MergeDatasets == PartialFns(AngleIds, AngleDatas(HoldsMaps, {}))
\* data sets that count holds only: any holds under angle "20", hold "H1" under "40"
Angle40Holds == PartialFns({"H1"}, GradeCountsSet)
UsageDatasets ==
    LET A20 == AngleDatas(HoldsMaps, {})
        A40 == AngleDatas(Angle40Holds, {})
    IN  {EmptyObj}
        \cup {[a \in {"20"} |-> d] : d \in A20}
        \cup {[a \in {"40"} |-> d] : d \in A40}
        \cup {[a \in AngleIds |-> IF a = "20" THEN d[1] ELSE d[2]] : d \in A20 \X A40}
\* data sets that list boulders only
BoulderDatasets == PartialFns(AngleIds, AngleDatas({}, BouldersMaps))
\* data sets of the page: angle "20" free, angle "40" as in the end-to-end scenario
Angle20Boulders == [b \in {"b1"} |-> [grade |-> "V3"]]
Angle40Data ==
    [holds |-> [h \in {"H1"} |-> [g \in {"V3"} |-> 5]],
     boulders |-> [b \in Uuids |-> [grade |-> IF b = "b1" THEN "V3" ELSE "V4"]]]
AppDatasets ==
    {[a \in AngleIds |-> IF a = "20" THEN d ELSE Angle40Data] :
        d \in AngleDatas(HoldsMaps, {Angle20Boulders})}

InitColor ==
    /\ value \in 0..MaxVal
    /\ quantiles \in [1..5 -> 0..MaxVal]
    /\ color = ""
    /\ pc = "call"
    /\ QuantIdle /\ MergeIdle /\ DataIdle /\ LoadIdle /\ ViewIdle

InitQuant ==
    /\ values \in UNION {[1..n -> 0..MaxUsage] : n \in 0..MaxLen}
    /\ cutoffs = <<>>
    /\ pc = "call"
    /\ ClassIdle /\ MergeIdle /\ DataIdle /\ LoadIdle /\ ViewIdle

InitMerge ==
    /\ gradeCountMap \in MergeDatasets
    /\ angleOrder \in Orders(DOMAIN gradeCountMap)
    /\ merged = EmptyObj
    /\ pc = "call"
    /\ ClassIdle /\ QuantIdle /\ LoadIdle /\ ViewIdle

\* the page once both resources are loaded and the initial render is done
InitLoaded(datasets) ==
    /\ gradeCountMap \in datasets
    /\ angleOrder \in Orders(DOMAIN gradeCountMap)
    /\ fetchHolds = "ok" /\ fetchMap = "ok" /\ init = "done" /\ listeners = TRUE
    /\ angleSelect = "all" /\ gradeSelect = "all"
    /\ svg = Circles(gradeCountMap, angleOrder, "all", "all")
    /\ boulderNumber = ToText(countBouldersWithGrade(gradeCountMap, angleOrder, "all", "all"))
    /\ pc = "idle"
    /\ ClassIdle /\ QuantIdle /\ MergeIdle

InitUsage == InitLoaded(UsageDatasets)
InitBoulders == InitLoaded(BoulderDatasets)

\* the page as the script starts: both fetches in flight, nothing drawn
Init ==
    /\ gradeCountMap \in AppDatasets
    /\ angleOrder \in Orders(DOMAIN gradeCountMap)
    /\ LoadIdle /\ ViewIdle
    /\ pc = "idle"
    /\ ClassIdle /\ QuantIdle /\ MergeIdle

----------------------------------------------------------------------------
(* Specifications *)

FilterChange ==
    \/ \E a \in AngleOptions : ChangeAngle(a)
    \/ \E g \in GradeOptions : ChangeGrade(g)

Next ==
    \/ ResolveHolds
    \/ RejectHolds
    \/ ResolveMap
    \/ RejectMap
    \/ Start
    \/ Abort
    \/ FilterChange

Spec == Init /\ [][Next]_vars
SpecUsage == InitUsage /\ [][FilterChange]_vars
SpecBoulders == InitBoulders /\ [][FilterChange]_vars
SpecColor == InitColor /\ [][CallColor]_vars
SpecQuant == InitQuant /\ [][CallQuantiles]_vars
SpecMerge == InitMerge /\ [][CallMerge]_vars

----------------------------------------------------------------------------
(* Properties of the classifier *)

BucketColours == {"#bd0026", "#fd8d3c", "#fecc5c", "#ffffb2", "#d4f7b2"}

\* C1: getPercentileColor returns "transparent" for value 0 whatever the
\* cutoffs, and otherwise the colour of the first test that holds top-down,
\* value >= cutoffs[4], [3], [2], [1], else the bottom colour; a value equal
\* to a cutoff falls in the bucket that cutoff opens.
C1_ColorBuckets ==
    pc = "done" =>
        /\ value = 0 => color = "transparent"
        /\ value # 0 /\ value >= quantiles[5] => color = "#bd0026"
        /\ value # 0 /\ value < quantiles[5] /\ value >= quantiles[4] => color = "#fd8d3c"
        /\ value # 0 /\ value < quantiles[5] /\ value < quantiles[4]
             /\ value >= quantiles[3] => color = "#fecc5c"
        /\ value # 0 /\ value < quantiles[5] /\ value < quantiles[4]
             /\ value < quantiles[3] /\ value >= quantiles[2] => color = "#ffffb2"
        /\ value # 0 /\ value < quantiles[5] /\ value < quantiles[4]
             /\ value < quantiles[3] /\ value < quantiles[2] => color = "#d4f7b2"

\* a value on the boundary of the second bucket, below the top cutoff
C1_Witness ==
    /\ pc = "done" /\ color = "#fd8d3c"
    /\ value = quantiles[4] /\ value < quantiles[5] /\ value > 0

\* v is the element at 0-based position p of vals sorted ascending
AtRank(vals, p, v) ==
    /\ Cardinality({i \in DOMAIN vals : vals[i] < v}) <= p
    /\ Cardinality({i \in DOMAIN vals : vals[i] <= v}) > p
    /\ \E i \in DOMAIN vals : vals[i] = v

\* floor(q * n) for q = 0.0, 0.3, 0.5, 0.85, 0.95
QuantilePositions(n) == <<0, (3 * n) \div 10, n \div 2, (17 * n) \div 20, (19 * n) \div 20>>

\* C2: for a non-empty input of length n, computeQuantiles returns the
\* elements of the ascending-sorted input at positions floor(q*n) for
\* q = 0.0, 0.3, 0.5, 0.85, 0.95; each position is below n, each cutoff is an
\* element of the input, and the input array is left unmodified.
C2_QuantilesByRank ==
    /\ [](pc = "done" /\ Len(values) > 0 =>
            /\ Len(cutoffs) = 5
            /\ \A k \in 1..5 :
                /\ QuantilePositions(Len(values))[k] < Len(values)
                /\ AtRank(values, QuantilePositions(Len(values))[k], cutoffs[k]))
    /\ [][values' = values]_vars

\* seven unsorted values whose five positions 0, 2, 3, 5, 6 are distinct
C2_Witness ==
    /\ pc = "done"
    /\ values = <<2, 1, 0, 2, 1, 0, 1>>
    /\ cutoffs = <<0, 1, 1, 2, 2>>

\* C7: for a non-empty input the cutoffs are non-decreasing and the first
\* one is the minimum of the input.
C7_QuantilesMonotone ==
    pc = "done" /\ Len(values) > 0 =>
        /\ \A k \in 1..4 : cutoffs[k] <= cutoffs[k + 1]
        /\ \A i \in DOMAIN values : cutoffs[1] <= values[i]
        /\ \E i \in DOMAIN values : cutoffs[1] = values[i]

\* an input in descending order with three distinct cutoffs
C7_Witness ==
    /\ pc = "done"
    /\ Len(values) = MaxLen
    /\ \A i \in 1..(Len(values) - 1) : values[i] >= values[i + 1]
    /\ cutoffs[1] < cutoffs[3] /\ cutoffs[3] < cutoffs[5]

----------------------------------------------------------------------------
(* Properties of the aggregator *)

\* count[a][h][g], an absent angle, holds sub-map, hold or grade read as 0
CountAt(a, h, g) ==
    IF /\ HasHolds(gradeCountMap, a)
       /\ h \in DOMAIN gradeCountMap[a].holds
       /\ g \in DOMAIN gradeCountMap[a].holds[h]
    THEN gradeCountMap[a].holds[h][g]
    ELSE 0

RECURSIVE TotalCount(_, _)
TotalCount(pairs, h) ==
    IF pairs = {} THEN 0
    ELSE LET x == CHOOSE y \in pairs : TRUE
         IN  CountAt(x[1], h, x[2]) + TotalCount(pairs \ {x}, h)

SelectedAngles == IF angleSelect = "all" THEN AngleIds ELSE {angleSelect}
SelectedGrades == IF gradeSelect = "all" THEN Grades ELSE {gradeSelect}

\* the usage the pipeline gives hold h under (angle, grade)
UsageOf(h, angle, grade) ==
    LET u == usagePerHold(selectActiveMap(gradeCountMap, angleOrder, angle), grade)
    IN  IF h \in DOMAIN u THEN u[h] ELSE 0

RECURSIVE SumUsageOverGrades(_, _)
SumUsageOverGrades(h, gs) ==
    IF gs = {} THEN 0
    ELSE LET g == CHOOSE x \in gs : TRUE
         IN  UsageOf(h, angleSelect, g) + SumUsageOverGrades(h, gs \ {g})

\* C3: the usage of every drawn hold is the sum of count[a][h][g] over the
\* selected angles and the selected grades, absent entries counted as 0; with
\* grade "all" it is the sum over the individual grades of the usage computed
\* for that grade.
C3_UsageIsSum ==
    \A i \in DOMAIN svg :
        /\ svg[i].usage = TotalCount(SelectedAngles \X SelectedGrades, svg[i].id)
        /\ gradeSelect = "all" => svg[i].usage = SumUsageOverGrades(svg[i].id, Grades)

\* all angles, one grade: hold H1 counted once under each angle for V3, and
\* also counted for the grade that is filtered out
C3_Witness ==
    /\ angleSelect = "all" /\ gradeSelect = "V3"
    /\ CountAt("20", "H1", "V3") = 1 /\ CountAt("40", "H1", "V3") = 1
    /\ CountAt("20", "H1", "V4") = 1
    /\ \E i \in DOMAIN svg : svg[i].id = "H1" /\ svg[i].usage = 2

Transparent(c) == c.usage = 0 /\ c.fill = "transparent"

\* C4: missing data resolves to zero or empty: an angle that is absent or has
\* no holds sub-map gives an empty usage mapping, whose quantiles are
\* (0,0,0,0,0); a hold absent from the active map and a grade absent from a
\* hold's counts give usage 0; every such hold is coloured "transparent".
C4_MissingIsZero ==
    LET activeMap == selectActiveMap(gradeCountMap, angleOrder, angleSelect)
        usage == usagePerHold(activeMap, gradeSelect)
    IN  /\ angleSelect # "all" /\ ~HasHolds(gradeCountMap, angleSelect) =>
            /\ usage = EmptyObj
            /\ computeQuantiles(usageVals(usage)) = <<0, 0, 0, 0, 0>>
            /\ \A i \in DOMAIN svg : Transparent(svg[i])
        /\ \A i \in DOMAIN svg :
            /\ svg[i].id \notin DOMAIN activeMap => Transparent(svg[i])
            /\ svg[i].id \in DOMAIN activeMap /\ gradeSelect # "all"
                 /\ gradeSelect \notin DOMAIN activeMap[svg[i].id] => Transparent(svg[i])

\* an absent angle is selected although another angle counts hold H1
C4_Witness ==
    /\ angleSelect = "60" /\ gradeSelect = "V3"
    /\ CountAt("20", "H1", "V3") = 1
    /\ Len(svg) = 3
    /\ \A i \in DOMAIN svg : Transparent(svg[i])

\* the boulder entries (angle, uuid) the selection matches
MatchingEntries ==
    {e \in AngleIds \X Uuids :
        /\ angleSelect \in {"all", e[1]}
        /\ HasBoulders(gradeCountMap, e[1])
        /\ e[2] \in DOMAIN gradeCountMap[e[1]].boulders
        /\ gradeSelect \in {"all", gradeCountMap[e[1]].boulders[e[2]].grade}}

\* C5: the displayed count is the number of boulder entries of the selected
\* angles whose grade is selected, an absent angle or boulders sub-map
\* contributing 0; a UUID present under two angles counts twice.
C5_BoulderCount == boulderNumber = ToText(Cardinality(MatchingEntries))

\* boulder b1 is listed under both angles with the selected grade
C5_Witness ==
    /\ angleSelect = "all" /\ gradeSelect = "V3"
    /\ <<"20", "b1">> \in MatchingEntries /\ <<"40", "b1">> \in MatchingEntries
    /\ boulderNumber = "2"

\* the holds of all angles that define a holds sub-map
UnionOfHolds ==
    UNION {DOMAIN gradeCountMap[a].holds : a \in {x \in DOMAIN gradeCountMap : HasHolds(gradeCountMap, x)}}

\* C6: merging the angles in any order gives the same hold set, the union of
\* the holds of all angles with a holds sub-map, and the same totals.
C6_MergeCommutes ==
    pc = "done" =>
        /\ DOMAIN merged = UnionOfHolds
        /\ \A o \in Orders(DOMAIN gradeCountMap) : mergeAllAngles(gradeCountMap, o) = merged

\* merged in the order 40, 20, with hold H1 counted under both angles
C6_Witness ==
    /\ pc = "done" /\ angleOrder = <<"40", "20">>
    /\ CountAt("20", "H1", "V3") = 1 /\ CountAt("40", "H1", "V3") = 1
    /\ CountAt("40", "H2", "V4") = 1 /\ ~("H2" \in DOMAIN gradeCountMap["20"].holds)
    /\ merged["H1"]["V3"] = 2 /\ merged["H2"]["V4"] = 1

----------------------------------------------------------------------------
(* Properties of the page *)

\* C8: once the page is initialised, the circles and the boulder count shown
\* are those of a single render of the loaded data under the current
\* selection, whatever was selected before.
C8_RenderIsFresh ==
    init = "done" =>
        /\ svg = Circles(gradeCountMap, angleOrder, angleSelect, gradeSelect)
        /\ boulderNumber = ToText(countBouldersWithGrade(gradeCountMap, angleOrder,
                                                         gradeSelect, angleSelect))

\* the scenario's angle 40 with grade V3 selected, after the initial render
C8_Witness ==
    /\ listeners /\ angleSelect = "40" /\ gradeSelect = "V3"
    /\ Len(svg) = 3 /\ svg[1].id = "H1" /\ svg[1].usage = 5 /\ svg[1].fill = "#bd0026"
    /\ boulderNumber = "1"

NothingRendered == svg = <<>> /\ boulderNumber = ""

\* C9: nothing is rendered and no listener is attached before both loads
\* have completed; the initial render happens once, in the step that attaches
\* the listeners; a failed load means nothing is ever rendered.
C9_RenderAfterLoad ==
    /\ [](/\ ~NothingRendered => fetchHolds = "ok" /\ fetchMap = "ok" /\ init = "done"
          /\ listeners <=> init = "done"
          /\ init = "done" => ~NothingRendered
          /\ fetchHolds = "failed" \/ fetchMap = "failed" => NothingRendered /\ ~listeners)
    /\ [][/\ ~listeners /\ (svg' # svg \/ boulderNumber' # boulderNumber) =>
                init = "waiting" /\ NothingRendered /\ listeners' /\ init' = "done"
          /\ listeners => listeners'
          /\ init # "waiting" => init' = init]_vars

\* both loads completed and the page is initialised
C9_Witness ==
    /\ fetchHolds = "ok" /\ fetchMap = "ok" /\ init = "done" /\ listeners
    /\ ~NothingRendered

Invisible(c) == c.fill = "transparent" \/ (c.fillOpacity = 0 /\ c.strokeOpacity = 0)

\* C10: a drawn marker is invisible exactly when its hold's usage is 0; a
\* hold with usage above 0 gets a bucket colour with non-zero fill opacity.
C10_InvisibleIffUnused ==
    \A i \in DOMAIN svg :
        /\ Invisible(svg[i]) <=> svg[i].usage = 0
        /\ svg[i].usage > 0 => svg[i].fill \in BucketColours /\ svg[i].fillOpacity # 0

=============================================================================
